---- MODULE Spec2Model ----
(***************************************************************************)
(* SLIP framing over a serial port (src/src/slip.js).                      *)
(*                                                                         *)
(* The module models the SLIP class: the constructor, the three send       *)
(* methods and the 'data' handler collectDataAndFireMessageEvent_, whose   *)
(* accumulation buffer and write cursor live in a closure created once,    *)
(* when the prototype method is defined.  The codec of ./slip-message.js   *)
(* (the SLIPMessage constructor, SLIPMessage.unescape and                  *)
(* SLIPMessage.applyProtocol) is not part of the sources at hand; it is    *)
(* modelled from sections 4.2 and 4.3 of the specification.                *)
(*                                                                         *)
(* Buffers are sequences of bytes.  JavaScript offsets are 0-based, TLA+   *)
(* sequences are 1-based: offset k of a Buffer is element k + 1.           *)
(***************************************************************************)
EXTENDS Integers, Sequences, FiniteSets, TLC

(***************************************************************************)
(* Bounds of the model.                                                    *)
(***************************************************************************)
\* Bytes a run of 'data' events delivers in total.
MaxBytes == 6
\* Bytes a run delivers in total when both instances receive data.
MaxSharedBytes == 4
\* 'data' events of a run.
MaxCalls == 3
\* Size of the accumulation buffer.  The source allocates 1024 * 10 bytes
\* (slip.js:88); the model keeps the same allocation, copy and cursor
\* arithmetic over a buffer small enough for a frame to outgrow it.
Capacity == 2
\* Longest payload handed to sendMessage / sendMessageAndDrain.
MaxSendLen == 2
\* Send calls of a run.
MaxSends == 1
\* Longest payload the codec is applied to.
MaxPayload == 3
\* Bytes fed in the runs that build instances with protocols of their own.
MaxProtocolBytes == 3

\* The two SLIP objects of the process.
Instances == {"A", "B"}
\* Byte values: one ordinary byte and the four bytes the default protocol
\* gives a role to.
Bytes == {1, 192, 219, 220, 221}

RECURSIVE SeqsUpTo(_, _)
SeqsUpTo(S, n) ==
  IF n = 0 THEN {<<>>}
  ELSE LET shorter == SeqsUpTo(S, n - 1)
       IN  shorter \cup {Append(s, b) : s \in {t \in shorter : Len(t) = n - 1}, b \in S}

\* The default protocol with 220 for its escapeByte.
defaultProtocolDefinition_escape220 ==
  [messageMaxLength |-> 256,
   endByte          |-> 192,
   escapeByte       |-> 220,
   escapeRules      |-> << [initialFragment |-> 192, replacement |-> 220],
                           [initialFragment |-> 219, replacement |-> 221] >>]

\* The default protocol with the two replacements exchanged.
defaultProtocolDefinition_exchanged ==
  [messageMaxLength |-> 256,
   endByte          |-> 192,
   escapeByte       |-> 219,
   escapeRules      |-> << [initialFragment |-> 192, replacement |-> 221],
                           [initialFragment |-> 219, replacement |-> 220] >>]

\* The default protocol without the rule for its endByte.
defaultProtocolDefinition_noEndRule ==
  [messageMaxLength |-> 256,
   endByte          |-> 192,
   escapeByte       |-> 219,
   escapeRules      |-> << [initialFragment |-> 219, replacement |-> 221] >>]

\* The default protocol with 222 for its second replacement.
defaultProtocolDefinition_replacement222 ==
  [messageMaxLength |-> 256,
   endByte          |-> 192,
   escapeByte       |-> 219,
   escapeRules      |-> << [initialFragment |-> 192, replacement |-> 220],
                           [initialFragment |-> 219, replacement |-> 222] >>]

(***************************************************************************)
(* Protocol definition, slip.js:13-27.                                     *)
(***************************************************************************)
defaultProtocolDefinition ==
  [messageMaxLength |-> 256,
   endByte          |-> 192,
   escapeByte       |-> 219,
   escapeRules      |-> << [initialFragment |-> 192, replacement |-> 220],
                           [initialFragment |-> 219, replacement |-> 221] >>]

(***************************************************************************)
(* Buffer primitives of the platform, by what they do.                     *)
(***************************************************************************)
\* buf.slice(start, end): the bytes at offsets start .. end - 1.
slice(buf, start, end) == SubSeq(buf, start + 1, end)

\* Buffer.concat([a, b]).
concat(a, b) == a \o b

\* buf.indexOf(value) for a Buffer value: the first offset at which value
\* occurs in buf, -1 when there is none.
indexOf(buf, value) ==
  LET hits == {k \in 0..(Len(buf) - Len(value)) :
                 slice(buf, k, k + Len(value)) = value}
  IN  IF hits = {} THEN -1
      ELSE CHOOSE k \in hits : \A j \in hits : k <= j

\* source.copy(target, targetStart, sourceStart, sourceEnd): copies as many
\* of the bytes source[sourceStart .. sourceEnd - 1] as fit in target from
\* targetStart on, and returns how many it copied.  Nothing is written past
\* the end of target.
copyCount(target, targetStart, sourceStart, sourceEnd) ==
  IF targetStart >= Len(target) \/ sourceStart >= sourceEnd THEN 0
  ELSE IF sourceEnd - sourceStart > Len(target) - targetStart
       THEN Len(target) - targetStart
       ELSE sourceEnd - sourceStart

copy(source, target, targetStart, sourceStart, sourceEnd) ==
  LET n == copyCount(target, targetStart, sourceStart, sourceEnd)
  IN  [k \in 1..Len(target) |->
         IF k > targetStart /\ k <= targetStart + n
         THEN source[sourceStart + (k - targetStart)]
         ELSE target[k]]

(***************************************************************************)
(* The codec of ./slip-message.js, from sections 4.2 and 4.3.              *)
(***************************************************************************)
\* The rules of proto whose initialFragment is b / whose replacement is b.
rulesFor(proto, b) ==
  {i \in 1..Len(proto.escapeRules) : proto.escapeRules[i].initialFragment = b}

rulesBack(proto, b) ==
  {i \in 1..Len(proto.escapeRules) : proto.escapeRules[i].replacement = b}

first(S) == CHOOSE i \in S : \A j \in S : i <= j

\* new SLIPMessage(buffer): every byte that is the initialFragment of a rule
\* becomes [escapeByte, replacement]; every other byte is kept.
RECURSIVE escape(_, _)
escape(buffer, proto) ==
  IF buffer = <<>> THEN <<>>
  ELSE LET b == Head(buffer)
           r == rulesFor(proto, b)
       IN  (IF r = {} THEN <<b>>
            ELSE <<proto.escapeByte, proto.escapeRules[first(r)].replacement>>)
           \o escape(Tail(buffer), proto)

\* The falsy marker of a frame that does not decode.
Invalid == [ok |-> FALSE, bytes |-> <<>>]

\* SLIPMessage.unescape(buffer): an escapeByte followed by the replacement of
\* a rule becomes that rule's initialFragment; an escapeByte that ends the
\* frame, or is followed by any other byte, makes the frame invalid; every
\* other byte is kept.
RECURSIVE unescape(_, _)
unescape(buffer, proto) ==
  IF buffer = <<>> THEN [ok |-> TRUE, bytes |-> <<>>]
  ELSE IF Head(buffer) = proto.escapeByte
  THEN IF Len(buffer) = 1 THEN Invalid
       ELSE LET r == rulesBack(proto, buffer[2])
            IN  IF r = {} THEN Invalid
                ELSE LET rest == unescape(SubSeq(buffer, 3, Len(buffer)), proto)
                     IN  IF rest.ok
                         THEN [ok |-> TRUE,
                               bytes |-> <<proto.escapeRules[first(r)].initialFragment>>
                                         \o rest.bytes]
                         ELSE Invalid
  ELSE LET rest == unescape(Tail(buffer), proto)
       IN  IF rest.ok THEN [ok |-> TRUE, bytes |-> <<Head(buffer)>> \o rest.bytes]
           ELSE Invalid

(***************************************************************************)
(* State.                                                                  *)
(***************************************************************************)
VARIABLES
  temporaryBuffer,   \* the closure's accumulation buffer, slip.js:88
  writeCursor,       \* the closure's write cursor, slip.js:89
  appliedProtocol,   \* the protocol last given to SLIPMessage.applyProtocol
  protocol_,         \* this.protocol_ of each instance
  endByte_,          \* this.endByte_ of each instance
  status,            \* per instance: "new", "ready", or "ConfigError"
  received,          \* per instance, the bytes its 'data' events delivered
  dataEvents,        \* per instance, the number of its 'data' events
  messages,          \* per instance, the 'message' events it emitted
  sends,             \* per instance, the send calls made on it
  written,           \* per instance, the buffers handed to this.write
  pending,           \* per instance, the writes that have not completed
  drains,            \* per instance, the drain requests not completed
  called,            \* per instance, the calls of the senders' callbacks
  thrown,            \* per instance, the errors thrown in write callbacks
  payload,           \* codec: the payload under test
  encoded,           \* codec: its encoding
  decoded,           \* codec: the decoding of the encoding
  stage              \* codec: "payload", "encoded" or "decoded"

closureVars == <<temporaryBuffer, writeCursor>>
protoVars   == <<appliedProtocol, protocol_, endByte_, status>>
rxVars      == <<received, dataEvents, messages>>
doneVars    == <<drains, called, thrown>>
txVars      == <<sends, written, pending, drains, called, thrown>>
codecVars   == <<payload, encoded, decoded, stage>>
vars == <<temporaryBuffer, writeCursor, appliedProtocol, protocol_, endByte_,
          status, received, dataEvents, messages, sends, written, pending, drains,
          called, thrown, payload, encoded, decoded, stage>>

(***************************************************************************)
(* The constructor, slip.js:35-47.                                         *)
(***************************************************************************)
\* defaults that leaves the unset fields unset.
defaults_none(object, source) == object

\* _.defaults(object, source): the fields of object, and every field of
\* source that object leaves unset.
defaults(object, source) ==
  [f \in (DOMAIN object) \cup (DOMAIN source) |->
     IF f \in DOMAIN object THEN object[f] ELSE source[f]]

\* The protocol an instance built as new SLIP(path, options, protocol) keeps;
\* noProtocol stands for an omitted argument, which becomes {} (slip.js:39).
noProtocol == <<>>

SLIP(protocol) == defaults(protocol, defaultProtocolDefinition)

\* Buffer.from([protocol.endByte]), slip.js:42.
endByteOf(protocol) == <<protocol.endByte>>

\* A buffer of n bytes whose content is never read before it is written.
allocUnsafe(n) == [k \in 1..n |-> 0]

\* Both instances are built without a protocol argument.
Init ==
  /\ temporaryBuffer = allocUnsafe(Capacity)
  /\ writeCursor = 0
  /\ appliedProtocol = SLIP(noProtocol)
  /\ protocol_ = [i \in Instances |-> SLIP(noProtocol)]
  /\ endByte_ = [i \in Instances |-> endByteOf(SLIP(noProtocol))]
  /\ status = [i \in Instances |-> "ready"]
  /\ received = [i \in Instances |-> <<>>]
  /\ dataEvents = [i \in Instances |-> 0]
  /\ messages = [i \in Instances |-> <<>>]
  /\ sends = [i \in Instances |-> <<>>]
  /\ written = [i \in Instances |-> <<>>]
  /\ pending = [i \in Instances |-> <<>>]
  /\ drains = [i \in Instances |-> 0]
  /\ called = [i \in Instances |-> <<>>]
  /\ thrown = [i \in Instances |-> 0]
  /\ payload = <<>>
  /\ encoded = <<>>
  /\ decoded = Invalid
  /\ stage = "payload"

\* No instance is built yet and no protocol has been applied.
InitNew ==
  /\ temporaryBuffer = allocUnsafe(Capacity)
  /\ writeCursor = 0
  /\ appliedProtocol = noProtocol
  /\ protocol_ = [i \in Instances |-> noProtocol]
  /\ endByte_ = [i \in Instances |-> <<>>]
  /\ status = [i \in Instances |-> "new"]
  /\ received = [i \in Instances |-> <<>>]
  /\ dataEvents = [i \in Instances |-> 0]
  /\ messages = [i \in Instances |-> <<>>]
  /\ sends = [i \in Instances |-> <<>>]
  /\ written = [i \in Instances |-> <<>>]
  /\ pending = [i \in Instances |-> <<>>]
  /\ drains = [i \in Instances |-> 0]
  /\ called = [i \in Instances |-> <<>>]
  /\ thrown = [i \in Instances |-> 0]
  /\ payload = <<>>
  /\ encoded = <<>>
  /\ decoded = Invalid
  /\ stage = "payload"

\* The validation of section 4.1 on a protocol whose unset fields are filled in:
\* no field is missing from the protocol or from a rule, the terminator and
\* the escape byte differ,
\* and no two rules have the same initialFragment.  A rule whose
\* initialFragment is the terminator or the escape byte is how that byte
\* gets escaped (the default rules are of this kind) and no collision.
wellFormed(protocol) ==
  LET rules == protocol.escapeRules
  IN  /\ DOMAIN defaultProtocolDefinition \subseteq DOMAIN protocol
      /\ \A k \in 1..Len(rules) :
           {"initialFragment", "replacement"} \subseteq DOMAIN rules[k]
      /\ protocol.endByte # protocol.escapeByte
      /\ \A j, k \in 1..Len(rules) :
           j # k => rules[j].initialFragment # rules[k].initialFragment

\* new SLIP(path, options, protocol) builds instance i, slip.js:35-47.
\* SLIPMessage.applyProtocol takes only the protocol (slip.js:40), and the
\* codec is later called with only a buffer (slip.js:62, 74, 107): the
\* protocol it applies is the one of the latest call, whichever instance
\* made it.  A protocol that fails the validation of section 4.1 makes
\* applyProtocol throw, which ends the construction before slip.js:41.
newSLIP(i, protocol) ==
  /\ status[i] = "new"
  /\ LET filled == SLIP(protocol)
     IN  IF wellFormed(filled)
         THEN /\ appliedProtocol' = filled
              /\ protocol_' = [protocol_ EXCEPT ![i] = filled]
              /\ endByte_' = [endByte_ EXCEPT ![i] = endByteOf(filled)]
              /\ status' = [status EXCEPT ![i] = "ready"]
         ELSE /\ status' = [status EXCEPT ![i] = "ConfigError"]
              /\ UNCHANGED <<appliedProtocol, protocol_, endByte_>>
  /\ UNCHANGED <<closureVars, rxVars, txVars, codecVars>>

(***************************************************************************)
(* The 'data' handler, slip.js:87-122.                                     *)
(***************************************************************************)
\* appendChunk with the cursor assigned where the source adds to it.
appendChunk_assign(buf, wc, data, sourceStart, sourceEnd) ==
  [temporaryBuffer |-> copy(data, buf, wc, sourceStart, sourceEnd),
   writeCursor     |-> copyCount(buf, wc, sourceStart, sourceEnd)]

\* appendChunk with the cursor moved by the bytes to copy, not by the bytes
\* copied.
appendChunk_requested(buf, wc, data, sourceStart, sourceEnd) ==
  [temporaryBuffer |-> copy(data, buf, wc, sourceStart, sourceEnd),
   writeCursor     |-> wc + (sourceEnd - sourceStart)]

\* appendChunk with the bytes copied to the start of the buffer.
appendChunk_atStart(buf, wc, data, sourceStart, sourceEnd) ==
  [temporaryBuffer |-> copy(data, buf, 0, sourceStart, sourceEnd),
   writeCursor     |-> wc + copyCount(buf, wc, sourceStart, sourceEnd)]

\* writeCursor += data.copy(temporaryBuffer, writeCursor, sourceStart,
\* sourceEnd), slip.js:96 and slip.js:101.
appendChunk(buf, wc, data, sourceStart, sourceEnd) ==
  [temporaryBuffer |-> copy(data, buf, wc, sourceStart, sourceEnd),
   writeCursor     |-> wc + copyCount(buf, wc, sourceStart, sourceEnd)]

\* fireMessage without the test of slip.js:103.
fireMessage_anyCursor(buf, wc, proto) ==
  LET messageBuffer == copy(buf, allocUnsafe(wc), 0, 0, wc)
      msg == unescape(messageBuffer, proto)
  IN  IF msg.ok THEN <<msg.bytes>> ELSE <<>>

\* fireMessage without the test of slip.js:108.
fireMessage_anyMsg(buf, wc, proto) ==
  IF wc > 0
  THEN LET messageBuffer == copy(buf, allocUnsafe(wc), 0, 0, wc)
           msg == unescape(messageBuffer, proto)
       IN  <<msg.bytes>>
  ELSE <<>>

\* slip.js:103-111: the 'message' events one endByte gives rise to, none or
\* one.
fireMessage(buf, wc, proto) ==
  IF wc > 0
  THEN LET messageBuffer == copy(buf, allocUnsafe(wc), 0, 0, wc)
           msg == unescape(messageBuffer, proto)
       IN  IF msg.ok THEN <<msg.bytes>> ELSE <<>>
  ELSE <<>>

\* hasDataAfter that counts the endByte among the data after it.
hasDataAfter_orEndByte(data, endIndex) == Len(data) > endIndex

\* slip.js:113: the chunk has data after the endByte.
hasDataAfter(data, endIndex) == (Len(data) - 1) > endIndex

\* slip.js:115 with the slice begun one byte late.
dataAfter_late(data, endIndex) == slice(data, endIndex + 2, Len(data))

\* slip.js:115: the chunk from the byte after the endByte on.
dataAfter(data, endIndex) == slice(data, endIndex + 1, Len(data))

\* The cursor left where it is.
cursorAfterEndByte_kept(wc) == wc

\* slip.js:112: the cursor an endByte leaves behind.
cursorAfterEndByte(wc) == 0

\* The do-while loop of slip.js:92-120, one iteration per unfolding;
\* iterations counts the passes through its body.
RECURSIVE collectData(_, _, _, _, _)
collectData(buf, wc, data, endByte, proto) ==
  LET endIndex == indexOf(data, endByte)
  IN  IF endIndex = -1
      THEN LET a == appendChunk(buf, wc, data, 0, Len(data))
           IN  [temporaryBuffer |-> a.temporaryBuffer,
                writeCursor     |-> a.writeCursor,
                emitted         |-> <<>>,
                iterations      |-> 1]
      ELSE LET a == IF endIndex > 0
                    THEN appendChunk(buf, wc, data, 0, endIndex)
                    ELSE [temporaryBuffer |-> buf, writeCursor |-> wc]
               fired == fireMessage(a.temporaryBuffer, a.writeCursor, proto)
               reset == cursorAfterEndByte(a.writeCursor)
           IN  IF hasDataAfter(data, endIndex)
               THEN LET r == collectData(a.temporaryBuffer, reset,
                                         dataAfter(data, endIndex),
                                         endByte, proto)
                    IN  [r EXCEPT !.emitted = fired \o @, !.iterations = @ + 1]
               ELSE [temporaryBuffer |-> a.temporaryBuffer,
                     writeCursor     |-> reset,
                     emitted         |-> fired,
                     iterations      |-> 1]

\* The same loop while a 'message' listener is registered that, at the first
\* message it gets, hands the chunk fed to the handler again (fed is <<>>
\* once the listener has done so, or << chunk >>).  this.emit('message', msg)
\* at slip.js:109 calls the listener before it returns: the inner call runs
\* on the buffer and cursor as they are at slip.js:109, and the outer call
\* goes on from slip.js:112 with what the inner call left.
RECURSIVE collectDataListening(_, _, _, _, _, _)
collectDataListening(buf, wc, data, endByte, proto, fed) ==
  LET endIndex == indexOf(data, endByte)
  IN  IF endIndex = -1
      THEN LET a == appendChunk(buf, wc, data, 0, Len(data))
           IN  [temporaryBuffer |-> a.temporaryBuffer,
                writeCursor     |-> a.writeCursor,
                emitted         |-> <<>>]
      ELSE LET a == IF endIndex > 0
                    THEN appendChunk(buf, wc, data, 0, endIndex)
                    ELSE [temporaryBuffer |-> buf, writeCursor |-> wc]
               fired == fireMessage(a.temporaryBuffer, a.writeCursor, proto)
               listens == fired # <<>> /\ fed # <<>>
               inner == IF listens
                        THEN collectData(a.temporaryBuffer, a.writeCursor,
                                         Head(fed), endByte, proto)
                        ELSE [temporaryBuffer |-> a.temporaryBuffer,
                              writeCursor     |-> a.writeCursor,
                              emitted         |-> <<>>]
               reset == cursorAfterEndByte(inner.writeCursor)
           IN  IF hasDataAfter(data, endIndex)
               THEN LET r == collectDataListening(inner.temporaryBuffer, reset,
                                                  dataAfter(data, endIndex),
                                                  endByte, proto,
                                                  IF listens THEN <<>> ELSE fed)
                    IN  [r EXCEPT !.emitted = fired \o inner.emitted \o @]
               ELSE [temporaryBuffer |-> inner.temporaryBuffer,
                     writeCursor     |-> reset,
                     emitted         |-> fired \o inner.emitted]

TotalBytes == Len(received["A"]) + Len(received["B"])
TotalCalls == dataEvents["A"] + dataEvents["B"]

\* The chunks a 'data' event can still deliver: every sequence of bytes within
\* what is left of MaxBytes.
Chunks == SeqsUpTo(Bytes, MaxBytes - TotalBytes)

\* A 'data' event of instance i delivers data (slip.js:44-46); every
\* 'message' the handler emits reaches the listeners of i before it returns.
collectDataAndFireMessageEvent_(i, data) ==
  /\ status[i] = "ready"
  /\ TotalCalls < MaxCalls
  /\ \E r \in {collectData(temporaryBuffer, writeCursor, data, endByte_[i],
                            appliedProtocol)} :
       /\ temporaryBuffer' = r.temporaryBuffer
       /\ writeCursor' = r.writeCursor
       /\ messages' = [messages EXCEPT ![i] = @ \o r.emitted]
  /\ received' = [received EXCEPT ![i] = @ \o data]
  /\ dataEvents' = [dataEvents EXCEPT ![i] = @ + 1]
  /\ UNCHANGED <<protoVars, txVars, codecVars>>

\* A 'data' event of instance i delivers data while a 'message' listener of
\* i is registered that, at the first message, gives rise to a second 'data'
\* event of i with the chunk fed, before the first has returned.
\* The step is one in which the handler emits a message, so that the
\* listener runs.
dataWhileListening(i, data, fed) ==
  /\ status[i] = "ready"
  /\ TotalCalls + 1 < MaxCalls
  /\ \E r \in {collectDataListening(temporaryBuffer, writeCursor, data,
                                     endByte_[i], appliedProtocol, <<fed>>)} :
       /\ r.emitted # <<>>
       /\ temporaryBuffer' = r.temporaryBuffer
       /\ writeCursor' = r.writeCursor
       /\ messages' = [messages EXCEPT ![i] = @ \o r.emitted]
  /\ received' = [received EXCEPT ![i] = @ \o data \o fed]
  /\ dataEvents' = [dataEvents EXCEPT ![i] = @ + 2]
  /\ UNCHANGED <<protoVars, txVars, codecVars>>

(***************************************************************************)
(* The send methods, slip.js:51-79.                                        *)
(***************************************************************************)
SendPayloads == SeqsUpTo(Bytes, MaxSendLen)

TotalSends == Len(sends["A"]) + Len(sends["B"])

\* this.write(buffer, callback) on instance i, on behalf of the call
\* op(arg): the transport takes the buffer and completes the write later.
write(i, op, arg, buffer) ==
  /\ status[i] = "ready"
  /\ written' = [written EXCEPT ![i] = Append(@, buffer)]
  /\ sends' = [sends EXCEPT ![i] = Append(@, [op |-> op, buffer |-> arg])]
  /\ pending' = [pending EXCEPT ![i] = Append(@, op)]
  /\ UNCHANGED doneVars

\* framed with an endByte in front of the message as well.
framed_leadingEnd(i, buffer) ==
  concat(endByte_[i], concat(escape(buffer, appliedProtocol), endByte_[i]))

\* Buffer.concat([new SLIPMessage(buffer), that.endByte_]), slip.js:62 and
\* slip.js:74.
framed(i, buffer) == concat(escape(buffer, appliedProtocol), endByte_[i])

sendFlush(i) ==
  /\ TotalSends < MaxSends
  /\ write(i, "sendFlush", <<>>, endByte_[i])
  /\ UNCHANGED <<closureVars, protoVars, rxVars, codecVars>>

sendMessage(i, buffer) ==
  /\ TotalSends < MaxSends
  /\ write(i, "sendMessage", buffer, framed(i, buffer))
  /\ UNCHANGED <<closureVars, protoVars, rxVars, codecVars>>

sendMessageAndDrain(i, buffer) ==
  /\ TotalSends < MaxSends
  /\ write(i, "sendMessageAndDrain", buffer, framed(i, buffer))
  /\ UNCHANGED <<closureVars, protoVars, rxVars, codecVars>>

\* What a completed write or drain reports: no error, or an error.
Errs == {"null", "EIO"}

\* The transport completes the oldest write of instance i and calls the
\* callback it was given with err.  sendFlush gave none (slip.js:52);
\* sendMessage gave the caller's (slip.js:63); sendMessageAndDrain gave the
\* function of slip.js:75-78, which hands an error to the caller's callback
\* and otherwise calls this.drain(callback).  `this` is the receiver the
\* transport calls the function with, which slip.js does not set: the port
\* (bound), or undefined in strict mode, where this.drain throws a
\* TypeError before drain is requested.
writeCallback(i, err, bound) ==
  /\ pending[i] # <<>>
  /\ pending' = [pending EXCEPT ![i] = Tail(@)]
  /\ LET op == Head(pending[i])
     IN  CASE op = "sendFlush" -> UNCHANGED doneVars
           [] op = "sendMessage" ->
                /\ called' = [called EXCEPT ![i] = Append(@, [op |-> op, err |-> err])]
                /\ UNCHANGED <<drains, thrown>>
           [] op = "sendMessageAndDrain" ->
                IF err # "null"
                THEN /\ called' = [called EXCEPT ![i] = Append(@, [op |-> op, err |-> err])]
                     /\ UNCHANGED <<drains, thrown>>
                ELSE IF bound
                     THEN /\ drains' = [drains EXCEPT ![i] = @ + 1]
                          /\ UNCHANGED <<called, thrown>>
                     ELSE /\ thrown' = [thrown EXCEPT ![i] = @ + 1]
                          /\ UNCHANGED <<called, drains>>
  /\ UNCHANGED <<closureVars, protoVars, rxVars, codecVars, sends, written>>

\* The transport completes a drain of instance i and calls the callback
\* given to drain, the caller's (slip.js:77), with err.
drainCallback(i, err) ==
  /\ drains[i] > 0
  /\ drains' = [drains EXCEPT ![i] = @ - 1]
  /\ called' = [called EXCEPT ![i] =
                  Append(@, [op |-> "sendMessageAndDrain", err |-> err])]
  /\ UNCHANGED <<closureVars, protoVars, rxVars, codecVars, sends, written,
                 pending, thrown>>

(***************************************************************************)
(* The codec applied to one payload.                                       *)
(***************************************************************************)
Payloads == SeqsUpTo(Bytes, MaxPayload)

InitCodec ==
  /\ temporaryBuffer = allocUnsafe(Capacity)
  /\ writeCursor = 0
  /\ appliedProtocol = SLIP(noProtocol)
  /\ protocol_ = [i \in Instances |-> SLIP(noProtocol)]
  /\ endByte_ = [i \in Instances |-> endByteOf(SLIP(noProtocol))]
  /\ status = [i \in Instances |-> "ready"]
  /\ received = [i \in Instances |-> <<>>]
  /\ dataEvents = [i \in Instances |-> 0]
  /\ messages = [i \in Instances |-> <<>>]
  /\ sends = [i \in Instances |-> <<>>]
  /\ written = [i \in Instances |-> <<>>]
  /\ pending = [i \in Instances |-> <<>>]
  /\ drains = [i \in Instances |-> 0]
  /\ called = [i \in Instances |-> <<>>]
  /\ thrown = [i \in Instances |-> 0]
  /\ payload \in Payloads
  /\ encoded = <<>>
  /\ decoded = Invalid
  /\ stage = "payload"

Encode ==
  /\ stage = "payload"
  /\ encoded' = escape(payload, appliedProtocol)
  /\ stage' = "encoded"
  /\ UNCHANGED <<closureVars, protoVars, rxVars, txVars, payload, decoded>>

Decode ==
  /\ stage = "encoded"
  /\ decoded' = unescape(encoded, appliedProtocol)
  /\ stage' = "decoded"
  /\ UNCHANGED <<closureVars, protoVars, rxVars, txVars, payload, encoded>>

\* SLIPMessage.unescape(messageBuffer), slip.js:107, on the bytes taken as
\* a frame off the wire rather than as a payload to send.
unescapeFrame ==
  /\ stage = "payload"
  /\ decoded' = unescape(payload, appliedProtocol)
  /\ stage' = "frame"
  /\ UNCHANGED <<closureVars, protoVars, rxVars, txVars, payload, encoded>>

(***************************************************************************)
(* Specifications.                                                         *)
(***************************************************************************)
\* One reassembler: every 'data' event is an event of instance A.
NextReassembler == \E data \in Chunks : collectDataAndFireMessageEvent_("A", data)

\* Two reassemblers: 'data' events of A and of B, in any order.
NextInstances ==
  \E i \in Instances, data \in SeqsUpTo(Bytes, MaxSharedBytes - TotalBytes) :
    collectDataAndFireMessageEvent_(i, data)

NextSend ==
  \E i \in Instances :
    \/ sendFlush(i)
    \/ \E buffer \in SendPayloads : sendMessage(i, buffer)
    \/ \E buffer \in SendPayloads : sendMessageAndDrain(i, buffer)

NextCodec == Encode \/ Decode \/ unescapeFrame

\* The protocol argument of a construction: each field set or left unset.
\* Some have the terminator as escape byte, a rule short of a field, or two
\* rules for one byte.
restrict(object, fields) == [f \in fields |-> object[f]]
RuleChoices ==
  { defaultProtocolDefinition.escapeRules,
    << [initialFragment |-> 192, replacement |-> 221],
       [initialFragment |-> 219, replacement |-> 220] >>,
    << [initialFragment |-> 192] >>,
    << [initialFragment |-> 192, replacement |-> 220], [replacement |-> 221] >>,
    << [initialFragment |-> 192, replacement |-> 220],
       [initialFragment |-> 192, replacement |-> 221] >> }
Protocols ==
  { restrict(full, fields) :
      full \in [endByte : {192, 219}, escapeByte : {219, 192, 1},
                escapeRules : RuleChoices],
      fields \in SUBSET {"endByte", "escapeByte", "escapeRules"} }

\* Constructions only, with every protocol argument.
NextConstruct == \E i \in Instances, protocol \in Protocols : newSLIP(i, protocol)

\* Three well-formed protocols: the defaults, the default rules with
\* their replacements exchanged, and a terminator of its own.
OwnProtocols ==
  { noProtocol,
    [escapeRules |-> << [initialFragment |-> 192, replacement |-> 221],
                        [initialFragment |-> 219, replacement |-> 220] >>],
    [endByte |-> 1,
     escapeRules |-> << [initialFragment |-> 1, replacement |-> 220],
                        [initialFragment |-> 219, replacement |-> 221] >>] }

\* Instances built one after the other, each with a protocol of its own,
\* sending on either and receiving on A.
NextProtocol ==
  \/ \E i \in Instances, protocol \in OwnProtocols : newSLIP(i, protocol)
  \/ \E i \in Instances, buffer \in SeqsUpTo(Bytes, 1) : sendMessage(i, buffer)
  \/ \E data \in SeqsUpTo(Bytes, MaxProtocolBytes - TotalBytes) :
       collectDataAndFireMessageEvent_("A", data)

\* One reassembler with a 'message' listener that may feed it.
NextListening ==
  \/ \E data \in SeqsUpTo(Bytes, MaxSharedBytes - TotalBytes) :
       collectDataAndFireMessageEvent_("A", data)
  \/ \E data \in SeqsUpTo(Bytes, MaxSharedBytes - TotalBytes) :
       \E fed \in SeqsUpTo(Bytes, MaxSharedBytes - TotalBytes - Len(data)) :
         dataWhileListening("A", data, fed)

\* Sends and their completions.
NextDrain ==
  \/ NextSend
  \/ \E i \in Instances, err \in Errs, bound \in BOOLEAN : writeCallback(i, err, bound)
  \/ \E i \in Instances, err \in Errs : drainCallback(i, err)

Next == NextInstances \/ NextListening \/ NextDrain \/ NextCodec \/ NextConstruct

Spec == Init /\ [][Next]_vars
SpecReassembler == Init /\ [][NextReassembler]_vars
SpecInstances == Init /\ [][NextInstances]_vars
SpecSend == Init /\ [][NextSend]_vars
SpecCodec == InitCodec /\ [][NextCodec]_vars
SpecConstruct == InitNew /\ [][NextConstruct]_vars
SpecProtocol == InitNew /\ [][NextProtocol]_vars
SpecDrain == Init /\ [][NextDrain]_vars
SpecListening == Init /\ [][NextListening]_vars

(***************************************************************************)
(* Frames of a stream, read off the bytes.                                 *)
(***************************************************************************)
\* The positions of the terminator e in s.
Terminators(s, e) == {k \in 1..Len(s) : s[k] = e}

\* The terminated frames of s, in order, terminators left out.
RECURSIVE FramesOf(_, _)
FramesOf(s, e) ==
  IF Terminators(s, e) = {} THEN <<>>
  ELSE LET k == first(Terminators(s, e))
       IN  <<SubSeq(s, 1, k - 1)>> \o FramesOf(SubSeq(s, k + 1, Len(s)), e)

\* The bytes of s after its last terminator: the pending frame.
PendingOf(s, e) ==
  IF Terminators(s, e) = {} THEN s
  ELSE LET k == CHOOSE t \in Terminators(s, e) : \A u \in Terminators(s, e) : u <= t
       IN  SubSeq(s, k + 1, Len(s))

\* No frame of s, terminated or pending, is longer than the buffer.
FitsBuffer(s, e) ==
  /\ \A k \in 1..Len(FramesOf(s, e)) : Len(FramesOf(s, e)[k]) <= Capacity
  /\ Len(PendingOf(s, e)) <= Capacity

\* The decodings of the non-empty frames of fs that decode, in order.
RECURSIVE Delivered(_, _)
Delivered(fs, proto) ==
  IF fs = <<>> THEN <<>>
  ELSE LET d == unescape(Head(fs), proto)
       IN  (IF Head(fs) # <<>> /\ d.ok THEN <<d.bytes>> ELSE <<>>)
           \o Delivered(Tail(fs), proto)

\* f is the encoding of a payload, which is then unescape(f, proto).bytes.
IsEncoding(f, proto) ==
  LET d == unescape(f, proto) IN d.ok /\ escape(d.bytes, proto) = f

\* s is an encoded frame followed by its terminator.
IsWire(s, e, proto) ==
  /\ Len(s) >= 1
  /\ s[Len(s)] = e
  /\ IsEncoding(SubSeq(s, 1, Len(s) - 1), proto)

TerminatorOf(i) == protocol_[i].endByte

(***************************************************************************)
(* C1.  After any sequence of 'data' events of one reassembler in which no *)
(* frame outgrows the buffer, the 'message' events are exactly the         *)
(* decodings of the non-empty terminated frames of the received stream     *)
(* that decode, once each and in stream order.                             *)
(***************************************************************************)
C1_MessagesAreTheDecodedFrames ==
  LET s == received["A"]
      e == TerminatorOf("A")
  IN  FitsBuffer(s, e) => messages["A"] = Delivered(FramesOf(s, e), appliedProtocol)

\* Three 'data' events, three terminated frames, one of them dropped.
C1_Witness ==
  /\ dataEvents["A"] = 3
  /\ FitsBuffer(received["A"], TerminatorOf("A"))
  /\ Len(FramesOf(received["A"], TerminatorOf("A"))) = 3
  /\ Len(messages["A"]) = 2

(***************************************************************************)
(* C2.  Chunk-boundary independence: an encoded frame and its terminator   *)
(* delivered in two 'data' events to an empty reassembler give the         *)
(* messages and the cursor that the same bytes give in one 'data' event.   *)
(***************************************************************************)
C2_ChunkBoundaryIndependence ==
  LET s == received["A"]
      whole == collectData(allocUnsafe(Capacity), 0, s, endByte_["A"], appliedProtocol)
  IN  (dataEvents["A"] = 2 /\ IsWire(s, TerminatorOf("A"), appliedProtocol))
        => /\ messages["A"] = whole.emitted
           /\ writeCursor = whole.writeCursor

\* The frame of payload [192] delivered in two events.
C2_Witness ==
  /\ dataEvents["A"] = 2
  /\ received["A"] = <<219, 220, 192>>
  /\ messages["A"] = << <<192>> >>
  /\ writeCursor = 0

(***************************************************************************)
(* C3.  Multi-frame-per-chunk.  TwoFrames: the stream is one chunk made of *)
(* two non-empty encoded frames, each followed by its terminator.          *)
(***************************************************************************)
TwoFrames(s, e, proto) ==
  /\ Len(FramesOf(s, e)) = 2
  /\ PendingOf(s, e) = <<>>
  /\ \A k \in 1..2 : FramesOf(s, e)[k] # <<>> /\ IsEncoding(FramesOf(s, e)[k], proto)

PayloadsOf(s, e, proto) ==
  [k \in 1..Len(FramesOf(s, e)) |-> unescape(FramesOf(s, e)[k], proto).bytes]

\* C3 as claimed: for all non-empty payloads m1 and m2, one 'data' event
\* with encode(m1), terminator, encode(m2), terminator on an empty
\* reassembler emits m1 then m2 and nothing else, and leaves the cursor at 0.
C3_TwoFramesAnyLength ==
  LET s == received["A"]
      e == TerminatorOf("A")
  IN  (dataEvents["A"] = 1 /\ TwoFrames(s, e, appliedProtocol))
        => /\ messages["A"] = PayloadsOf(s, e, appliedProtocol)
           /\ writeCursor = 0

\* C3 as amended: the same, for payloads whose encodings each fit the
\* accumulation buffer.
C3_TwoFramesThatFit ==
  LET s == received["A"]
      e == TerminatorOf("A")
  IN  (dataEvents["A"] = 1 /\ TwoFrames(s, e, appliedProtocol) /\ FitsBuffer(s, e))
        => /\ messages["A"] = PayloadsOf(s, e, appliedProtocol)
           /\ writeCursor = 0

\* Payloads [192] and [1] in one chunk.
C3_Witness ==
  /\ dataEvents["A"] = 1
  /\ received["A"] = <<219, 220, 192, 1, 192>>
  /\ messages["A"] = << <<192>>, <<1>> >>
  /\ writeCursor = 0

(***************************************************************************)
(* C4.  Empty-frame suppression: a terminator with nothing accumulated     *)
(* before it (at the start of the stream or right after another            *)
(* terminator, in the same chunk or in the next one) emits no message.  So *)
(* there are never more messages than non-empty frames, no message is      *)
(* empty, and a stream of terminators alone emits nothing.                 *)
(***************************************************************************)
NonEmptyFrames(s, e) ==
  {k \in 1..Len(FramesOf(s, e)) : FramesOf(s, e)[k] # <<>>}

C4_EmptyFramesEmitNothing ==
  LET s == received["A"]
      e == TerminatorOf("A")
  IN  /\ Len(messages["A"]) <= Cardinality(NonEmptyFrames(s, e))
      /\ \A k \in 1..Len(messages["A"]) : messages["A"][k] # <<>>
      /\ (\A k \in 1..Len(s) : s[k] = e) => messages["A"] = <<>>

\* Two consecutive terminators, one 'data' event each.
C4_Witness ==
  /\ dataEvents["A"] = 2
  /\ received["A"] = <<192, 192>>
  /\ messages["A"] = <<>>
  /\ writeCursor = 0

(***************************************************************************)
(* C5.  Malformed escape drop and recovery.  AfterBadEscape: the stream is *)
(* [escapeByte, terminator] followed by one non-empty encoded frame and    *)
(* its terminator, in any chunking.                                        *)
(***************************************************************************)
BadEscape == <<appliedProtocol.escapeByte, TerminatorOf("A")>>

AfterBadEscape(s) ==
  /\ Len(s) > 3
  /\ SubSeq(s, 1, 2) = BadEscape
  /\ Len(FramesOf(s, TerminatorOf("A"))) = 2
  /\ IsWire(SubSeq(s, 3, Len(s)), TerminatorOf("A"), appliedProtocol)

\* C5 as claimed: [escapeByte, terminator] emits nothing, and any encoded
\* frame and terminator delivered after it is emitted as its payload.
C5_RecoveryAnyLength ==
  LET s == received["A"]
  IN  /\ s = BadEscape => (messages["A"] = <<>> /\ writeCursor = 0)
      /\ AfterBadEscape(s)
           => /\ messages["A"] =
                   <<unescape(FramesOf(s, TerminatorOf("A"))[2], appliedProtocol).bytes>>
              /\ writeCursor = 0

\* C5 as amended: the same, for a following frame that fits the
\* accumulation buffer.
C5_RecoveryOfFramesThatFit ==
  LET s == received["A"]
  IN  /\ s = BadEscape => (messages["A"] = <<>> /\ writeCursor = 0)
      /\ (AfterBadEscape(s) /\ FitsBuffer(s, TerminatorOf("A")))
           => /\ messages["A"] =
                   <<unescape(FramesOf(s, TerminatorOf("A"))[2], appliedProtocol).bytes>>
              /\ writeCursor = 0

\* The frame of payload [219] after a dropped frame, in a later chunk.
C5_Witness ==
  /\ dataEvents["A"] >= 2
  /\ received["A"] = <<219, 192, 219, 221, 192>>
  /\ messages["A"] = << <<219>> >>
  /\ writeCursor = 0

\* The messages of a reassembler do not depend on how its stream was cut
\* into chunks: they are those of the whole stream delivered at once to an
\* empty reassembler.  Holds under SpecReassembler.
Alone(i) ==
  collectData(allocUnsafe(Capacity), 0, received[i], endByte_[i], appliedProtocol).emitted

ChunkingIsImmaterial == messages["A"] = Alone("A")

(***************************************************************************)
(* C9.  Buffer overflow is a defined error: a 'data' event whose bytes     *)
(* before the first terminator, added to the bytes accumulated, exceed the *)
(* capacity rejects the frame.  If the chunk has no terminator, the cursor *)
(* is back at 0 and nothing is emitted; if its only terminator is its last *)
(* byte, nothing is emitted for the frame, not even a truncated message.   *)
(***************************************************************************)
\* The chunk of the 'data' event A is taking.
Chunk == SubSeq(received'["A"], Len(received["A"]) + 1, Len(received'["A"]))

\* Its bytes before the first terminator.
Leading(data, e) ==
  IF Terminators(data, e) = {} THEN data
  ELSE SubSeq(data, 1, first(Terminators(data, e)) - 1)

C9_OversizedFrameIsRejected ==
  [][ LET e == TerminatorOf("A")
      IN  (/\ dataEvents'["A"] = dataEvents["A"] + 1
           /\ writeCursor + Len(Leading(Chunk, e)) > Capacity)
            => /\ Terminators(Chunk, e) = {}
                    => (writeCursor' = 0 /\ messages' = messages)
               /\ Terminators(Chunk, e) = {Len(Chunk)}
                    => messages' = messages ]_vars

(***************************************************************************)
(* C10.  Instance isolation: whatever the order of the 'data' events of A  *)
(* and of B, each instance emits the messages it emits when it receives    *)
(* its own chunks alone.                                                   *)
(***************************************************************************)
C10_InstanceIsolation == \A i \in Instances : messages[i] = Alone(i)

(***************************************************************************)
(* C6.  Round-trip law: under the default protocol definition, a payload   *)
(* with no byte equal to the terminator (192) or the escape byte (219)     *)
(* decodes from its encoding to itself.                                    *)
(***************************************************************************)
C6_RoundTrip ==
  (stage = "decoded" /\ \A k \in 1..Len(payload) : payload[k] \notin {192, 219})
    => decoded = [ok |-> TRUE, bytes |-> payload]

\* A payload of ordinary bytes, the two replacement bytes among them.
C6_Witness ==
  /\ stage = "decoded"
  /\ payload = <<220, 1, 221>>
  /\ decoded = [ok |-> TRUE, bytes |-> <<220, 1, 221>>]

(***************************************************************************)
(* C7.  Escape coverage: under the default protocol definition the         *)
(* encoding of [192] is [219, 220] and the encoding of [219] is            *)
(* [219, 221], and each of the two decodes to the byte it encodes.         *)
(***************************************************************************)
C7_EscapeCoverage ==
  \A b \in {192, 219} :
    payload = <<b>>
      => /\ stage \in {"encoded", "decoded"}
              => encoded = <<219, IF b = 192 THEN 220 ELSE 221>>
         /\ stage = "decoded" => decoded = [ok |-> TRUE, bytes |-> <<b>>]

\* The escape byte itself, encoded and decoded.
C7_Witness ==
  /\ stage = "decoded"
  /\ payload = <<219>>
  /\ encoded = <<219, 221>>
  /\ decoded = [ok |-> TRUE, bytes |-> <<219>>]

(***************************************************************************)
(* C8.  sendMessage and sendMessageAndDrain each issue one write, of the   *)
(* encoded payload followed by the instance's endByte, which is the last   *)
(* byte of the write and occurs nowhere else in it.                        *)
(***************************************************************************)
C8_OneWriteEncodedThenTerminator ==
  \A i \in Instances :
    /\ Len(written[i]) = Len(sends[i])
    /\ \A k \in 1..Len(sends[i]) :
         sends[i][k].op \in {"sendMessage", "sendMessageAndDrain"}
           => /\ written[i][k] =
                   escape(sends[i][k].buffer, protocol_[i]) \o <<TerminatorOf(i)>>
              /\ Terminators(written[i][k], TerminatorOf(i)) = {Len(written[i][k])}

\* sendMessageAndDrain of a payload that holds the terminator.
C8_Witness ==
  \E i \in Instances :
    /\ sends[i] = << [op |-> "sendMessageAndDrain", buffer |-> <<192, 1>>] >>
    /\ written[i] = << <<219, 220, 1, 192>> >>

(***************************************************************************)
(* C11.  The protocol of an instance is fixed when it is built: whatever   *)
(* instances are built later and with whatever protocol, every message an  *)
(* instance sends is escaped with the instance's own escape byte and rules *)
(* and ends with its own terminator, and the messages it has delivered are *)
(* the frames between its own terminators, decoded with its own rules.     *)
(***************************************************************************)
C11_ProtocolFixedAtConstruction ==
  \A i \in Instances :
    status[i] = "ready" =>
      /\ \A k \in 1..Len(sends[i]) :
           sends[i][k].op = "sendMessage"
             => written[i][k] =
                  concat(escape(sends[i][k].buffer, protocol_[i]),
                         <<protocol_[i].endByte>>)
      /\ FitsBuffer(received[i], protocol_[i].endByte)
           => messages[i] =
                Delivered(FramesOf(received[i], protocol_[i].endByte), protocol_[i])

(***************************************************************************)
(* C12.  A construction whose protocol, unset fields filled in, has the    *)
(* terminator as escape byte, two rules for one byte, or a rule short of   *)
(* initialFragment or replacement, ends in ConfigError and leaves no       *)
(* framer; any other construction yields a framer whose protocol has the   *)
(* fields that were set and, for the others, endByte 0xC0, escapeByte 0xDB *)
(* and the rules 0xC0->0xDC, 0xDB->0xDD.                                   *)
(***************************************************************************)
Given(protocol, field, default) ==
  IF field \in DOMAIN protocol THEN protocol[field] ELSE default

Collides(protocol) ==
  LET rules == Given(protocol, "escapeRules",
                     << [initialFragment |-> 192, replacement |-> 220],
                        [initialFragment |-> 219, replacement |-> 221] >>)
  IN  \/ Given(protocol, "endByte", 192) = Given(protocol, "escapeByte", 219)
      \/ \E k \in 1..Len(rules) : DOMAIN rules[k] # {"initialFragment", "replacement"}
      \/ \E j, k \in 1..Len(rules) :
           /\ j < k
           /\ DOMAIN rules[j] = {"initialFragment", "replacement"}
           /\ DOMAIN rules[k] = {"initialFragment", "replacement"}
           /\ rules[j].initialFragment = rules[k].initialFragment

CountOf(ops, op) == Cardinality({k \in 1..Len(ops) : ops[k] = op})

DrainSends(i) ==
  CountOf([k \in 1..Len(sends[i]) |-> sends[i][k].op], "sendMessageAndDrain")

DrainCalls(i) ==
  CountOf([k \in 1..Len(called[i]) |-> called[i][k].op], "sendMessageAndDrain")

C13_CallbackExactlyOnce ==
  \A i \in Instances :
    /\ DrainCalls(i) + drains[i] + CountOf(pending[i], "sendMessageAndDrain")
         <= DrainSends(i)
    /\ thrown[i] = 0
    /\ (pending[i] = <<>> /\ drains[i] = 0) => DrainCalls(i) = DrainSends(i)

(***************************************************************************)
(* C14.  In every state of the reassembler, whatever the lengths of the    *)
(* chunks fed, the cursor is within 0..capacity and the accumulation       *)
(* buffer has its capacity, no byte stored past its end.                   *)
(***************************************************************************)
C14_CursorWithinBuffer ==
  /\ writeCursor \in 0..Capacity
  /\ DOMAIN temporaryBuffer = 1..Capacity

\* More bytes than the buffer holds have come in since the last terminator.
C14_Witness ==
  /\ Len(PendingOf(received["A"], TerminatorOf("A"))) > Capacity
  /\ writeCursor = Capacity

(***************************************************************************)
(* C15.  A 'data' event whose chunk has no terminator emits no message;    *)
(* when the chunk fits behind the cursor, it is stored there whole, the    *)
(* rest of the buffer is untouched and the cursor moves by its length.     *)
(* And the bytes after the last terminator never count: the messages of    *)
(* any 'data' event are those of its chunk up to the last terminator.      *)
(***************************************************************************)
\* The bytes of s up to its last terminator.
TerminatedOf(s, e) ==
  IF \E k \in 1..Len(s) : s[k] = e
  THEN SubSeq(s, 1, CHOOSE k \in 1..Len(s) :
                      s[k] = e /\ \A j \in (k + 1)..Len(s) : s[j] # e)
  ELSE <<>>

C15_NoTerminatorNoMessage ==
  [][ dataEvents'["A"] = dataEvents["A"] + 1
        => \A e \in {TerminatorOf("A")}, data \in {Chunk} :
             \A n \in {Len(data)} :
               /\ Terminators(data, e) = {}
                    => /\ messages' = messages
                       /\ writeCursor + n <= Capacity
                            => /\ writeCursor' = writeCursor + n
                               /\ \A k \in 1..Capacity :
                                    temporaryBuffer'[k] =
                                      IF k \in (writeCursor + 1)..(writeCursor + n)
                                      THEN data[k - writeCursor]
                                      ELSE temporaryBuffer[k]
               /\ messages'["A"] =
                    messages["A"] \o
                      collectData(temporaryBuffer, writeCursor,
                                  TerminatedOf(data, e),
                                  endByte_["A"], appliedProtocol).emitted ]_vars

\* A frame, then two chunks without terminator: one message, two bytes kept.
C15_Witness ==
  /\ dataEvents["A"] = 3
  /\ received["A"] = <<221, 192, 1, 220>>
  /\ messages["A"] = << <<221>> >>
  /\ temporaryBuffer = <<1, 220>>
  /\ writeCursor = 2

(***************************************************************************)
(* C16.  Every terminator leaves the cursor at 0, whatever its frame was:  *)
(* after a 'data' event whose chunk ends with a terminator the cursor is   *)
(* 0.  C16_CursorCountsPending is the claim as made: the cursor is always  *)
(* the number of bytes received since the last terminator.                 *)
(* C16_CursorCountsPendingUpToCapacity: it is that number or the capacity, *)
(* whichever is less.                                                      *)
(***************************************************************************)
EndsWithTerminator(s, e) == Len(s) > 0 /\ s[Len(s)] = e

C17_EncodingHasNoTerminator ==
  stage \in {"encoded", "decoded"}
    => /\ \A k \in 1..Len(encoded) : encoded[k] # 192
       /\ Len(encoded) =
            Len(payload) + Cardinality({k \in 1..Len(payload) : payload[k] \in {192, 219}})

\* A terminator, an escape byte and a plain byte, encoded to five bytes.
C17_Witness ==
  /\ stage = "encoded"
  /\ payload = <<192, 219, 1>>
  /\ encoded = <<219, 220, 219, 221, 1>>

(***************************************************************************)
(* C18.  Decoding a frame yields Invalid exactly when some escape byte of  *)
(* the frame is its last byte or is followed by a byte that is no rule's   *)
(* replacement (0xDC, 0xDD).  Otherwise the result is the frame with every *)
(* pair [escape byte, 0xDC] replaced by 0xC0, every pair [escape byte,     *)
(* 0xDD] by 0xDB, and the other bytes kept in order.                       *)
(***************************************************************************)
BadEscapeIn(f) ==
  \E k \in 1..Len(f) : f[k] = 219 /\ (k = Len(f) \/ f[k + 1] \notin {220, 221})

\* The positions of f that are no escape byte, and the j-th of them.
KeptIn(f) == {k \in 1..Len(f) : f[k] # 219}
NthKept(f, j) == CHOOSE k \in KeptIn(f) : Cardinality({m \in KeptIn(f) : m <= k}) = j

PairsReplaced(f) ==
  [j \in 1..Cardinality(KeptIn(f)) |->
     LET k == NthKept(f, j)
     IN  IF k > 1 /\ f[k - 1] = 219
         THEN (IF f[k] = 220 THEN 192 ELSE 219)
         ELSE f[k]]

C18_InvalidExactlyOnBadEscape ==
  stage = "frame"
    => /\ decoded.ok <=> ~BadEscapeIn(payload)
       /\ decoded.ok => decoded.bytes = PairsReplaced(payload)
       /\ ~decoded.ok => decoded = Invalid

\* A pair that decodes, then an escape byte that ends the frame.
C18_Witness ==
  /\ stage = "frame"
  /\ payload = <<219, 220, 219>>
  /\ decoded = Invalid

(***************************************************************************)
(* C19.  No overlapping reassembly: a chunk is processed to its end, its   *)
(* messages and the cursor reset included, before the next chunk is, also  *)
(* when a 'message' listener causes the next 'data' event before the       *)
(* handler has returned.  No byte is then lost, doubled or put in another  *)
(* frame: the messages are those of the chunks one after the other, and    *)
(* the cursor counts the bytes after the last terminator.                  *)
(***************************************************************************)
C19_NoOverlappingReassembly ==
  LET s == received["A"]
      e == TerminatorOf("A")
  IN  FitsBuffer(s, e)
        => /\ messages["A"] = Alone("A")
           /\ writeCursor = Len(PendingOf(s, e))

(***************************************************************************)
(* C20.  A 'data' event ends for every chunk: every pass through the loop  *)
(* returns or goes on with a shorter slice, the passes are as many as the  *)
(* terminators of the chunk, and one more when the chunk does not end with *)
(* a terminator, so at most terminators + 1; and the event emits at most   *)
(* as many messages as the chunk has terminators.                          *)
(***************************************************************************)
\* The slices of data the loop can start a pass with.
SlicesOf(data) == {SubSeq(data, k, Len(data)) : k \in 1..(Len(data) + 1)}

C20_LoopBoundedByTerminators ==
  [][ dataEvents'["A"] = dataEvents["A"] + 1
        => \A data \in {Chunk} :
             \A t \in {Cardinality(Terminators(data, TerminatorOf("A")))} :
               \A r \in {collectData(temporaryBuffer, writeCursor, data,
                                      endByte_["A"], appliedProtocol)} :
                 /\ \A d \in SlicesOf(data) :
                      \A endIndex \in {indexOf(d, endByte_["A"])} :
                        (endIndex # -1 /\ hasDataAfter(d, endIndex))
                          => Len(dataAfter(d, endIndex)) < Len(d)
                 /\ r.iterations =
                      IF EndsWithTerminator(data, TerminatorOf("A")) THEN t ELSE t + 1
                 /\ r.iterations <= t + 1
                 /\ Len(messages'["A"]) - Len(messages["A"]) <= t ]_vars

\* One 'data' event of three frames, the second empty, and a byte more.
C20_Witness ==
  /\ dataEvents["A"] = 1
  /\ received["A"] = <<1, 192, 192, 220, 192, 1>>
  /\ messages["A"] = << <<1>>, <<220>> >>
  /\ writeCursor = 1

====
